---- MODULE Spec2Model ----
(***************************************************************************)
(* Model of qt3utils.datagenerators.plescanner.CounterAndScanner, the     *)
(* scan controller of a photoluminescence-excitation scan.                *)
(*                                                                         *)
(* Positions (voltages) are counted in units of 0.5, the default step     *)
(* size, so that every position of the model is an exactly representable  *)
(* float and integer arithmetic agrees with the float arithmetic of the   *)
(* code.  The wavelength controller (PositionActuator) and the rate       *)
(* counter (RateSampler) are collaborators outside the module; they are   *)
(* modelled by their interface contract: the actuator accepts exactly the *)
(* targets within its allowed limits and raises ValueError otherwise, the *)
(* rate counter hands out sample-results and converts them to rates.      *)
(*                                                                         *)
(* Every public method is one action.  The variables call, raised, ret    *)
(* and io record the last call, the exception it raised, the value it     *)
(* returned and the collaborator calls it issued; before keeps the        *)
(* running flag, the rate counter's state and the number of recorded      *)
(* sweeps of the moment the last call was made.                           *)
(***************************************************************************)
EXTENDS Integers, Sequences, FiniteSets, TLC

VARIABLES
    running,             \* self.running
    current_t,           \* self.current_t, the current sweep index
    has_current_v,       \* whether the attribute self.current_v exists yet
    current_v,           \* self.current_v (meaningful when has_current_v)
    vmin,                \* self.vmin
    vmax,                \* self.vmax
    tmax,                \* self.tmax, the maximal sweep index
    step_size,           \* self._step_size
    scanned_raw_counts,  \* self.scanned_raw_counts
    scanned_count_rate,  \* self.scanned_count_rate
    rc_state,            \* the rate counter: "idle", "started" or "stopped"
    call,                \* the last call: its name and arguments
    raised,              \* the exception the last call raised, or "none"
    ret,                 \* the value the last call returned
    io,                  \* the collaborator calls the last call issued, in order
    before               \* running, rc_state and the number of sweeps before the last call

vars == <<running, current_t, has_current_v, current_v, vmin, vmax, tmax,
          step_size, scanned_raw_counts, scanned_count_rate, rc_state,
          call, raised, ret, io, before>>

----------------------------------------------------------------------------
(* Bounds of the model.                                                    *)

\* the actuator's maximum_allowed_position (its minimum is 0)
MaxAllowed == 2
\* sweeps are run while current_t is below this cap
MaxSweeps == 2
\* how far beyond the actuator's limits the arguments and current_v reach
Margin == 1

(* Program constants.                                                      *)

\* self.tmax = 100
DefaultTmax == 100
\* self._step_size = 0.5, one position unit
DefaultStepSize == 1

----------------------------------------------------------------------------
(* The collaborators.                                                      *)

minimum_allowed_position == 0
maximum_allowed_position == MaxAllowed

\* the positions the actuator accepts; every other target is rejected
\* with a ValueError by check_allowed_position, go_to_voltage, go_to_position
allowed_position(v) == minimum_allowed_position <= v /\ v <= maximum_allowed_position

\* number of clock samples a sample-result was integrated over
NumClockSamples == 2
\* clock rate of the rate counter, in clock samples per time unit
ClockRate == 4

\* a sample-result is a pair <<counts, clock samples>>; the controller
\* never looks into one, and two of them suffice to tell samples apart
SampleResults == {<<c, NumClockSamples>> : c \in {1, 2}}

\* rate_counter.sample_count_rate(data_counts)
rate_counter_sample_count_rate(data_counts) ==
    (ClockRate * data_counts[1]) \div data_counts[2]

Event(op, arg) == [op |-> op, arg |-> arg]

----------------------------------------------------------------------------
(* Inputs.                                                                 *)

Positions ==
    (minimum_allowed_position - Margin)..(maximum_allowed_position + Margin)
StepSizes == {-1, 1, 2}
TmaxValues == 0..(MaxSweeps - 1)

None == <<>>

Call(name, a, b, c) == [name |-> name, a |-> a, b |-> b, c |-> c]

\* what is kept of the controller state a call starts from
Snapshot ==
    [running |-> running, rc_state |-> rc_state,
     sweeps |-> Len(scanned_raw_counts)]

----------------------------------------------------------------------------
Init ==
    /\ running = FALSE
    /\ current_t = 0
    /\ has_current_v = FALSE
    /\ current_v = 0
    /\ vmin = minimum_allowed_position
    /\ vmax = maximum_allowed_position
    /\ tmax = DefaultTmax
    /\ step_size = DefaultStepSize
    /\ scanned_raw_counts = <<>>
    /\ scanned_count_rate = <<>>
    /\ rc_state = "idle"
    /\ call = Call("__init__", 0, 0, 0)
    /\ raised = "none"
    /\ ret = None
    /\ io = <<>>
    /\ before = [running |-> FALSE, rc_state |-> "idle", sweeps |-> 0]

\* what every call records
Record(name, a, b, c, exc, value, events) ==
    /\ call' = Call(name, a, b, c)
    /\ raised' = exc
    /\ ret' = value
    /\ io' = events
    /\ before' = Snapshot

\* stop written as a toggle of the running flag
stop_toggle ==
    /\ rc_state' = "stopped"
    /\ running' = ~running
    /\ Record("stop", 0, 0, 0, "none", None, <<Event("rate_counter.stop", 0)>>)
    /\ UNCHANGED <<current_t, has_current_v, current_v, vmin, vmax, tmax,
                   step_size, scanned_raw_counts, scanned_count_rate>>

stop ==
    /\ rc_state' = "stopped"
    /\ running' = FALSE
    /\ Record("stop", 0, 0, 0, "none", None, <<Event("rate_counter.stop", 0)>>)
    /\ UNCHANGED <<current_t, has_current_v, current_v, vmin, vmax, tmax,
                   step_size, scanned_raw_counts, scanned_count_rate>>

\* start that begins a fresh run
start_fresh ==
    /\ running' = TRUE
    /\ rc_state' = "started"
    /\ current_t' = 0
    /\ scanned_raw_counts' = <<>>
    /\ scanned_count_rate' = <<>>
    /\ Record("start", 0, 0, 0, "none", None, <<Event("rate_counter.start", 0)>>)
    /\ UNCHANGED <<has_current_v, current_v, vmin, vmax, tmax, step_size>>

start ==
    /\ running' = TRUE
    /\ rc_state' = "started"
    /\ Record("start", 0, 0, 0, "none", None, <<Event("rate_counter.start", 0)>>)
    /\ UNCHANGED <<current_t, has_current_v, current_v, vmin, vmax, tmax,
                   step_size, scanned_raw_counts, scanned_count_rate>>

set_to_starting_position ==
    /\ current_v' = vmin
    /\ has_current_v' = TRUE
    /\ Record("set_to_starting_position", 0, 0, 0,
              IF allowed_position(vmin) THEN "none" ELSE "ValueError", None,
              <<Event("go_to_voltage", vmin)>>)
    /\ UNCHANGED <<running, current_t, vmin, vmax, tmax, step_size,
                   scanned_raw_counts, scanned_count_rate, rc_state>>

\* the exception set_scan_range(a, b) ends with: the first rejected bound
\* raises out of the call
set_scan_range_raises(a, b) ==
    IF allowed_position(a) /\ allowed_position(b) THEN "none" ELSE "ValueError"

\* set_scan_range storing vmin before it checks vmax
set_scan_range_result_eager(a, b) ==
    IF ~allowed_position(a) THEN <<vmin, vmax>>
    ELSE IF ~allowed_position(b) THEN <<a, vmax>>
    ELSE <<a, b>>

\* set_scan_range storing vmin into both attributes
set_scan_range_result_typo(a, b) ==
    IF set_scan_range_raises(a, b) = "none" THEN <<a, a>> ELSE <<vmin, vmax>>

\* the range set_scan_range(a, b) leaves behind
set_scan_range_result(a, b) ==
    IF set_scan_range_raises(a, b) = "none" THEN <<a, b>> ELSE <<vmin, vmax>>

set_scan_range(a, b) ==
    /\ vmin' = set_scan_range_result(a, b)[1]
    /\ vmax' = set_scan_range_result(a, b)[2]
    /\ Record("set_scan_range", a, b, 0, set_scan_range_raises(a, b), None,
              IF allowed_position(a)
              THEN <<Event("check_allowed_position", a),
                     Event("check_allowed_position", b)>>
              ELSE <<Event("check_allowed_position", a)>>)
    /\ UNCHANGED <<running, current_t, has_current_v, current_v, tmax,
                   step_size, scanned_raw_counts, scanned_count_rate, rc_state>>

get_scan_range == <<vmin, vmax>>

\* the exception get_completed_scan_range ends with: __init__ assigns no
\* current_v, the attribute exists from set_to_starting_position on
get_completed_scan_range_raises ==
    IF has_current_v THEN "none" ELSE "AttributeError"

get_completed_scan_range_returns ==
    IF has_current_v THEN <<vmin, vmax, current_v>> ELSE None

get_completed_scan_range ==
    /\ Record("get_completed_scan_range", 0, 0, 0,
              get_completed_scan_range_raises,
              get_completed_scan_range_returns, <<>>)
    /\ UNCHANGED <<running, current_t, has_current_v, current_v, vmin, vmax,
                   tmax, step_size, scanned_raw_counts, scanned_count_rate,
                   rc_state>>

\* still_scanning comparing with < instead of <=
still_scanning_returns_strict ==
    IF running = FALSE THEN FALSE
    ELSE IF current_t < tmax THEN TRUE
    ELSE FALSE

\* still_scanning without the early return on running = False
still_scanning_returns_unguarded ==
    IF current_t <= tmax THEN TRUE ELSE FALSE

\* what still_scanning returns
still_scanning_returns ==
    IF running = FALSE THEN FALSE
    ELSE IF current_t <= tmax THEN TRUE
    ELSE FALSE

\* still_scanning that never assigns self.running
still_scanning_running_kept == running

\* the value of self.running that still_scanning leaves behind
still_scanning_running ==
    IF running = FALSE THEN running
    ELSE IF current_t <= tmax THEN running
    ELSE FALSE

\* still_scanning that also stops the rate counter when the sweeps are used up
still_scanning_stops ==
    /\ running' = still_scanning_running
    /\ rc_state' = IF running /\ current_t > tmax THEN "stopped" ELSE rc_state
    /\ Record("still_scanning", 0, 0, 0, "none", still_scanning_returns,
              IF running /\ current_t > tmax
              THEN <<Event("rate_counter.stop", 0)>> ELSE <<>>)
    /\ UNCHANGED <<current_t, has_current_v, current_v, vmin, vmax, tmax,
                   step_size, scanned_raw_counts, scanned_count_rate>>

still_scanning ==
    /\ running' = still_scanning_running
    /\ Record("still_scanning", 0, 0, 0, "none", still_scanning_returns, <<>>)
    /\ UNCHANGED <<current_t, has_current_v, current_v, vmin, vmax, tmax,
                   step_size, scanned_raw_counts, scanned_count_rate, rc_state>>

\* reset that also rewinds the sweep index
reset_and_rewind ==
    /\ scanned_raw_counts' = <<>>
    /\ scanned_count_rate' = <<>>
    /\ current_t' = 0
    /\ Record("reset", 0, 0, 0, "none", None, <<>>)
    /\ UNCHANGED <<running, has_current_v, current_v, vmin, vmax,
                   tmax, step_size, rc_state>>

reset ==
    /\ scanned_raw_counts' = <<>>
    /\ scanned_count_rate' = <<>>
    /\ Record("reset", 0, 0, 0, "none", None, <<>>)
    /\ UNCHANGED <<running, current_t, has_current_v, current_v, vmin, vmax,
                   tmax, step_size, rc_state>>

\* the step_size property setter
set_step_size(val) ==
    /\ step_size' = val
    /\ Record("step_size", val, 0, 0, "none", None, <<>>)
    /\ UNCHANGED <<running, current_t, has_current_v, current_v, vmin, vmax,
                   tmax, scanned_raw_counts, scanned_count_rate, rc_state>>

\* an assignment to the public attribute tmax by the owner of the controller
set_tmax(val) ==
    /\ tmax' = val
    /\ Record("tmax", val, 0, 0, "none", None, <<>>)
    /\ UNCHANGED <<running, current_t, has_current_v, current_v, vmin, vmax,
                   step_size, scanned_raw_counts, scanned_count_rate, rc_state>>

\* move_v without the try/except around the move
move_v_raises_uncaught(v) ==
    IF ~has_current_v THEN "AttributeError"
    ELSE IF v <= vmax /\ ~allowed_position(v) THEN "ValueError"
    ELSE "none"

\* the exception move_v ends with, v being the advanced position: a
\* ValueError of the actuator is caught and logged
move_v_raises(v) == IF has_current_v THEN "none" ELSE "AttributeError"

\* move_v without the comparison with vmax
move_v_io_unchecked(v) ==
    IF has_current_v THEN <<Event("go_to_position", v)>> ELSE <<>>

\* the collaborator calls of move_v, v being the advanced position
move_v_io(v) ==
    IF has_current_v /\ v <= vmax THEN <<Event("go_to_position", v)>> ELSE <<>>

move_v ==
    /\ has_current_v => current_v + step_size \in Positions
    /\ current_v' = IF has_current_v THEN current_v + step_size ELSE current_v
    /\ Record("move_v", 0, 0, 0, move_v_raises(current_v + step_size), None,
              move_v_io(current_v + step_size))
    /\ UNCHANGED <<running, current_t, has_current_v, vmin, vmax, tmax,
                   step_size, scanned_raw_counts, scanned_count_rate, rc_state>>

\* go_to_v with the upper check of move_v only
go_to_v_io_upper_only(desired_voltage) ==
    IF desired_voltage <= vmax
    THEN <<Event("go_to_voltage", desired_voltage)>>
    ELSE <<>>

\* the collaborator calls of go_to_v
go_to_v_io(desired_voltage) ==
    IF desired_voltage <= vmax /\ desired_voltage >= vmin
    THEN <<Event("go_to_voltage", desired_voltage)>>
    ELSE <<>>

go_to_v(desired_voltage) ==
    /\ Record("go_to_v", desired_voltage, 0, 0, "none", None,
              go_to_v_io(desired_voltage))
    /\ UNCHANGED <<running, current_t, has_current_v, current_v, vmin, vmax,
                   tmax, step_size, scanned_raw_counts, scanned_count_rate,
                   rc_state>>

----------------------------------------------------------------------------
(* The line scan.                                                          *)

\* a range that includes its end point
arange_len_inclusive(lo, hi, step) ==
    IF step > 0
    THEN IF hi >= lo THEN (hi - lo) \div step + 1 ELSE 0
    ELSE IF lo >= hi THEN (lo - hi) \div (-step) + 1 ELSE 0

\* len(np.arange(lo, hi, step)) = ceil((hi - lo) / step), step # 0
arange_len(lo, hi, step) ==
    IF step > 0
    THEN IF hi > lo THEN ((hi - lo) + step - 1) \div step ELSE 0
    ELSE IF lo > hi THEN ((lo - hi) + (-step) - 1) \div (-step) ELSE 0

\* np.arange(lo, hi, step)
np_arange(lo, hi, step) ==
    [i \in 1..arange_len(lo, hi, step) |-> lo + (i - 1) * step]

\* the number of loop iterations of scan_axis that run to their end: the
\* first move the actuator rejects raises out of the loop
scan_axis_completed(lo, hi, step) ==
    LET vals == np_arange(lo, hi, step)
        bad == {i \in 1..Len(vals) : ~allowed_position(vals[i])}
    IN  IF ~allowed_position(lo) THEN 0
        ELSE IF bad = {} THEN Len(vals)
        ELSE (CHOOSE i \in bad : \A j \in bad : i <= j) - 1

scan_axis_raises(lo, hi, step) ==
    IF allowed_position(lo)
       /\ scan_axis_completed(lo, hi, step) = arange_len(lo, hi, step)
    THEN "none" ELSE "ValueError"

\* the collaborator calls of scan_axis, when the rate counter hands out
\* samples[1], samples[2], ...
scan_axis_io(lo, hi, step, samples) ==
    LET vals == np_arange(lo, hi, step)
        k == scan_axis_completed(lo, hi, step)
        loop == [j \in 1..(2 * k) |->
                    IF j % 2 = 1
                    THEN Event("go_to_voltage", vals[(j + 1) \div 2])
                    ELSE Event("sample_counts", samples[j \div 2][1])]
    IN  <<Event("go_to_voltage", lo)>> \o
        (IF allowed_position(lo) THEN loop ELSE <<>>) \o
        (IF allowed_position(lo) /\ k < Len(vals)
         THEN <<Event("go_to_voltage", vals[k + 1])>> ELSE <<>>)

\* the list scan_axis returns
scan_axis_returns(lo, hi, step, samples) ==
    IF scan_axis_raises(lo, hi, step) = "none"
    THEN [i \in 1..scan_axis_completed(lo, hi, step) |-> samples[i]]
    ELSE None

scan_axis(lo, hi, step) ==
    \E samples \in [1..scan_axis_completed(lo, hi, step) -> SampleResults] :
        /\ Record("scan_axis", lo, hi, step, scan_axis_raises(lo, hi, step),
                  scan_axis_returns(lo, hi, step, samples),
                  scan_axis_io(lo, hi, step, samples))
        /\ UNCHANGED <<running, current_t, has_current_v, current_v, vmin,
                       vmax, tmax, step_size, scanned_raw_counts,
                       scanned_count_rate, rc_state>>

\* sample_count_rate(data_counts) with data_counts given
sample_count_rate(data_counts) == rate_counter_sample_count_rate(data_counts)

\* the conversion applied to the first sample of the line at every index
scan_v_count_rate_first(raw_counts_for_axis) ==
    [i \in 1..Len(raw_counts_for_axis) |->
        sample_count_rate(raw_counts_for_axis[1])]

\* the conversion that leaves out the last sample of the line
scan_v_count_rate_short(raw_counts_for_axis) ==
    [i \in 1..(Len(raw_counts_for_axis) - 1) |->
        sample_count_rate(raw_counts_for_axis[i])]

\* the entry scan_v appends to scanned_count_rate
scan_v_count_rate(raw_counts_for_axis) ==
    [i \in 1..Len(raw_counts_for_axis) |->
        sample_count_rate(raw_counts_for_axis[i])]

\* a sweep index that starts over once the budget is used up
scan_v_sweep_index_wrap == IF current_t + 1 > tmax THEN 0 ELSE current_t + 1

\* the sweep index scan_v leaves behind
scan_v_sweep_index == current_t + 1

scan_v ==
    /\ current_t < MaxSweeps
    /\ \E samples \in [1..scan_axis_completed(vmin, vmax, step_size) -> SampleResults] :
        LET exc == scan_axis_raises(vmin, vmax, step_size)
            raw_counts_for_axis == scan_axis_returns(vmin, vmax, step_size, samples)
        IN  /\ Record("scan_v", 0, 0, 0, exc, None,
                      scan_axis_io(vmin, vmax, step_size, samples))
            /\ IF exc = "none"
               THEN /\ scanned_raw_counts' =
                           Append(scanned_raw_counts, raw_counts_for_axis)
                    /\ scanned_count_rate' =
                           Append(scanned_count_rate,
                                  scan_v_count_rate(raw_counts_for_axis))
                    /\ current_t' = scan_v_sweep_index
               ELSE UNCHANGED <<scanned_raw_counts, scanned_count_rate, current_t>>
    /\ UNCHANGED <<running, has_current_v, current_v, vmin, vmax, tmax,
                   step_size, rc_state>>

(* scan_v statement by statement, for the interleavings with another       *)
(* thread.  While the call runs, raised = "pending", ret holds the samples *)
(* scan_axis has collected so far and io the collaborator calls made so    *)
(* far.                                                                    *)

\* a loop that also tests the running flag before each iteration
scan_axis_loop_while_running(done) ==
    running /\ done < arange_len(vmin, vmax, step_size)

\* the test of the for loop of scan_axis after done iterations
scan_axis_loop(done) == done < arange_len(vmin, vmax, step_size)

\* the call of scan_v up to the loop of scan_axis: the move to min
scan_v_begin ==
    /\ raised # "pending"
    /\ current_t < MaxSweeps
    /\ call' = Call("scan_v", 0, 0, 0)
    /\ before' = Snapshot
    /\ io' = <<Event("go_to_voltage", vmin)>>
    /\ ret' = None
    /\ raised' = IF allowed_position(vmin) THEN "pending" ELSE "ValueError"
    /\ UNCHANGED <<running, current_t, has_current_v, current_v, vmin, vmax,
                   tmax, step_size, scanned_raw_counts, scanned_count_rate,
                   rc_state>>

\* one iteration of the loop of scan_axis: a move, then a sample
scan_v_step ==
    /\ raised = "pending"
    /\ scan_axis_loop(Len(ret))
    /\ LET val == np_arange(vmin, vmax, step_size)[Len(ret) + 1]
       IN  IF allowed_position(val)
           THEN \E cts \in SampleResults :
                   /\ io' = io \o <<Event("go_to_voltage", val),
                                    Event("sample_counts", cts[1])>>
                   /\ ret' = Append(ret, cts)
                   /\ raised' = raised
           ELSE /\ io' = Append(io, Event("go_to_voltage", val))
                /\ ret' = None
                /\ raised' = "ValueError"
    /\ UNCHANGED <<running, current_t, has_current_v, current_v, vmin, vmax,
                   tmax, step_size, scanned_raw_counts, scanned_count_rate,
                   rc_state, call, before>>

\* the rest of scan_v once the loop of scan_axis is over
scan_v_end ==
    /\ raised = "pending"
    /\ ~scan_axis_loop(Len(ret))
    /\ scanned_raw_counts' = Append(scanned_raw_counts, ret)
    /\ scanned_count_rate' = Append(scanned_count_rate, scan_v_count_rate(ret))
    /\ current_t' = scan_v_sweep_index
    /\ raised' = "none"
    /\ ret' = None
    /\ UNCHANGED <<running, has_current_v, current_v, vmin, vmax, tmax,
                   step_size, rc_state, call, io, before>>

\* another thread sets running to False, at any moment
external_cancel ==
    /\ running' = FALSE
    /\ UNCHANGED <<current_t, has_current_v, current_v, vmin, vmax, tmax,
                   step_size, scanned_raw_counts, scanned_count_rate,
                   rc_state, call, raised, ret, io, before>>

----------------------------------------------------------------------------
Next ==
    \/ stop
    \/ start
    \/ set_to_starting_position
    \/ \E a \in Positions, b \in Positions : set_scan_range(a, b)
    \/ get_completed_scan_range
    \/ still_scanning
    \/ move_v
    \/ \E desired_voltage \in Positions : go_to_v(desired_voltage)
    \/ scan_v
    \/ reset
    \/ \E val \in StepSizes : set_step_size(val)
    \/ \E val \in TmaxValues : set_tmax(val)

Spec == Init /\ [][Next]_vars

(* The state space of Spec is the product of the positioning state (range, *)
(* step size, position) and the sweep state (sweep index, recorded         *)
(* sweeps).  The properties are checked on the three parts below, each     *)
(* with whole operations of the controller taken from the same Init.       *)

\* positioning: the range, the step size and the position, in every
\* lifecycle state
NextPositioning ==
    \/ stop
    \/ start
    \/ still_scanning
    \/ set_to_starting_position
    \/ \E a \in Positions, b \in Positions : set_scan_range(a, b)
    \/ get_completed_scan_range
    \/ move_v
    \/ \E desired_voltage \in Positions : go_to_v(desired_voltage)
    \/ \E val \in StepSizes : set_step_size(val)

SpecPositioning == Init /\ [][NextPositioning]_vars

\* sweeps over the initial range with every step size
NextSweep ==
    \/ stop
    \/ start
    \/ still_scanning
    \/ set_to_starting_position
    \/ scan_v
    \/ reset
    \/ \E val \in StepSizes : set_step_size(val)
    \/ \E val \in TmaxValues : set_tmax(val)

SpecSweep == Init /\ [][NextSweep]_vars

\* scan_axis reads and changes no attribute of the controller, only its
\* collaborators, so its calls are explored on their own
NextScanAxis ==
    \E lo \in Positions, hi \in Positions, step \in StepSizes :
        scan_axis(lo, hi, step)

SpecScanAxis == Init /\ [][NextScanAxis]_vars

\* sweeps taken statement by statement while another thread clears the
\* running flag; the calling thread makes its other calls between sweeps
NextCancel ==
    \/ raised # "pending" /\ stop
    \/ raised # "pending" /\ start
    \/ raised # "pending" /\ still_scanning
    \/ raised # "pending" /\ \E val \in StepSizes : set_step_size(val)
    \/ scan_v_begin
    \/ scan_v_step
    \/ scan_v_end
    \/ external_cancel

SpecCancel == Init /\ [][NextCancel]_vars

----------------------------------------------------------------------------
(* Properties.                                                             *)

\* the attributes of the controller
ctl == <<running, current_t, has_current_v, current_v, vmin, vmax, tmax,
         step_size, scanned_raw_counts, scanned_count_rate>>

\* the positions lo, lo + step, lo + 2 step, ... strictly before hi
LinePositions(lo, hi, step) ==
    IF step > 0
    THEN {p \in lo..(hi - 1) : (p - lo) % step = 0}
    ELSE {p \in (hi + 1)..lo : (lo - p) % (-step) = 0}

\* the same positions in the order of traversal
Progression(lo, hi, step) ==
    [i \in 1..Cardinality(LinePositions(lo, hi, step)) |-> lo + (i - 1) * step]

\* the targets of the go_to_voltage calls among events
MovedTo(events) ==
    {events[i].arg : i \in {j \in 1..Len(events) : events[j].op = "go_to_voltage"}}

\* the counts of the sample_counts calls among events, in order
IsSample(e) == e.op = "sample_counts"
Sampled(events) ==
    LET picked == SelectSeq(events, IsSample)
    IN  [i \in 1..Len(picked) |-> picked[i].arg]

\* C1: a set_scan_range call with a bound the actuator rejects, be it the
\* first or the second, fails with the actuator's range error and leaves
\* the scan range and every other attribute as they were.
C1_RejectedRangeChangesNothing ==
    [][(/\ call'.name = "set_scan_range"
        /\ ~(allowed_position(call'.a) /\ allowed_position(call'.b)))
       => /\ raised' = "ValueError"
          /\ get_scan_range' = get_scan_range
          /\ UNCHANGED ctl]_vars

\* C1 witness: only the second bound was rejected, and the accepted first
\* bound was not stored
C1_Witness ==
    /\ call.name = "set_scan_range"
    /\ allowed_position(call.a)
    /\ ~allowed_position(call.b)
    /\ raised = "ValueError"
    /\ vmin # call.a

\* C2: after set_scan_range(min, max) with both values within the
\* actuator's limits, get_scan_range() is exactly (min, max).
C2_AcceptedRangeIsStored ==
    (/\ call.name = "set_scan_range"
     /\ allowed_position(call.a)
     /\ allowed_position(call.b))
    => /\ raised = "none"
       /\ get_scan_range = <<call.a, call.b>>

\* C2 witness: a running controller was given a range other than the
\* initial one, with min above max
C2_Witness ==
    /\ call.name = "set_scan_range"
    /\ raised = "none"
    /\ running
    /\ call.a > call.b
    /\ get_scan_range = <<call.a, call.b>>

\* C3: on a running controller still_scanning returns false exactly when
\* current_t > tmax, and running is false afterwards exactly then.
C3_StillScanningUntilExhausted ==
    (call.name = "still_scanning" /\ before.running)
    => /\ ret = (current_t <= tmax)
       /\ running = (current_t <= tmax)

\* C3 witness: started, tmax = 1, two sweeps recorded, never stopped:
\* still_scanning returned false and cleared running
C3_Witness ==
    /\ call.name = "still_scanning"
    /\ before.running
    /\ rc_state = "started"
    /\ tmax = 1
    /\ current_t = 2
    /\ Len(scanned_raw_counts) = 2
    /\ ret = FALSE
    /\ running = FALSE

\* C4: still_scanning on a controller that is not running returns false
\* and changes no attribute.
C4_StillScanningWhenNotRunning ==
    [][(call'.name = "still_scanning" /\ ~running)
       => /\ ret' = FALSE
          /\ UNCHANGED <<ctl, rc_state>>]_vars

\* C4 witness: not running, with sweeps left and a sweep recorded
C4_Witness ==
    /\ call.name = "still_scanning"
    /\ ~before.running
    /\ ret = FALSE
    /\ current_t <= tmax
    /\ Len(scanned_raw_counts) > 0

\* C5: reset empties both result lists and leaves the sweep index, the
\* position, running, the range and the step size as they were.
C5_ResetClearsResultsOnly ==
    [][call'.name = "reset"
       => /\ scanned_raw_counts' = <<>>
          /\ scanned_count_rate' = <<>>
          /\ UNCHANGED <<current_t, has_current_v, current_v, running,
                         vmin, vmax, step_size>>]_vars

\* C5 witness: reset of a running controller that had recorded sweeps
C5_Witness ==
    /\ call.name = "reset"
    /\ before.sweeps > 0
    /\ scanned_raw_counts = <<>>
    /\ scanned_count_rate = <<>>
    /\ current_t > 0
    /\ has_current_v
    /\ running

\* C6: move_v raises no range error; when the advanced position is outside
\* [vmin, vmax] or rejected by the actuator it returns normally with
\* current_v advanced by step_size.
C6_MoveSwallowsRangeError ==
    [][call'.name = "move_v"
       => /\ raised' # "ValueError"
          /\ (/\ has_current_v
              /\ \/ current_v + step_size < vmin
                 \/ current_v + step_size > vmax
                 \/ ~allowed_position(current_v + step_size))
             => /\ raised' = "none"
                /\ current_v' = current_v + step_size]_vars

\* C6 witness: the move was attempted and the actuator rejected it
C6_Witness ==
    /\ call.name = "move_v"
    /\ raised = "none"
    /\ io = <<Event("go_to_position", current_v)>>
    /\ ~allowed_position(current_v)

\* C7: a stop that follows a stop changes nothing: running stays false,
\* the rate counter stays stopped, every attribute stays; the stop is
\* issued to the rate counter again.
C7_StopIdempotent ==
    [][(call.name = "stop" /\ call'.name = "stop")
       => /\ UNCHANGED <<ctl, rc_state>>
          /\ running' = FALSE
          /\ rc_state' = "stopped"
          /\ io' = <<Event("rate_counter.stop", 0)>>]_vars

\* C7 witness: stop was called on a stopped controller holding a sweep
C7_Witness ==
    /\ call.name = "stop"
    /\ ~before.running
    /\ before.rc_state = "stopped"
    /\ ~running
    /\ rc_state = "stopped"
    /\ current_t > 0
    /\ Len(scanned_raw_counts) > 0

\* C8 as stated: scan_axis with a positive step commands the actuator to
\* exactly the positions of the progression below max, never to max, and
\* returns one sample for each of them.
C8_OnlyProgressionCommanded ==
    (call.name = "scan_axis" /\ call.c > 0 /\ raised = "none")
    => /\ MovedTo(io) = LinePositions(call.a, call.b, call.c)
       /\ call.b \notin MovedTo(io)
       /\ Len(ret) = Cardinality(LinePositions(call.a, call.b, call.c))

\* C8 amended: scan_axis with a positive step and targets the actuator
\* accepts first commands the actuator to min, also when no position lies
\* below max, then commands the positions of the progression in
\* increasing order, sampling once after each move, and returns the
\* samples in that order.
C8_InitialMoveThenProgression ==
    (/\ call.name = "scan_axis"
     /\ call.c > 0
     /\ allowed_position(call.a)
     /\ \A p \in LinePositions(call.a, call.b, call.c) : allowed_position(p))
    => LET P == Progression(call.a, call.b, call.c)
       IN  /\ raised = "none"
           /\ Len(ret) = Len(P)
           /\ \A i \in 1..Len(ret) : ret[i] \in SampleResults
           /\ io = <<Event("go_to_voltage", call.a)>> \o
                   [j \in 1..(2 * Len(P)) |->
                       IF j % 2 = 1
                       THEN Event("go_to_voltage", P[(j + 1) \div 2])
                       ELSE Event("sample_counts", ret[j \div 2][1])]

\* C8 witness: a scan with step 2 over an odd distance returned two
\* different samples
C8_Witness ==
    /\ call.name = "scan_axis"
    /\ call.c = 2
    /\ (call.b - call.a) % 2 = 1
    /\ raised = "none"
    /\ Len(ret) = 2
    /\ ret[1] # ret[2]

\* C9: a scan_v that returns appends one entry to scanned_raw_counts, the
\* samples of the line scan from vmin to below vmax, and one entry to
\* scanned_count_rate, the rate of each of these samples at its index,
\* keeps the earlier entries and adds 1 to current_t.
C9_SweepAppendsOneEntry ==
    [][(call'.name = "scan_v" /\ raised' = "none")
       => LET n == Len(scanned_raw_counts)
              m == Len(scanned_count_rate)
          IN  /\ Len(scanned_raw_counts') = n + 1
              /\ Len(scanned_count_rate') = m + 1
              /\ SubSeq(scanned_raw_counts', 1, n) = scanned_raw_counts
              /\ SubSeq(scanned_count_rate', 1, m) = scanned_count_rate
              /\ Len(scanned_raw_counts'[n + 1]) =
                     Cardinality(LinePositions(vmin, vmax, step_size))
              /\ Sampled(io') =
                     [i \in 1..Len(scanned_raw_counts'[n + 1]) |->
                         scanned_raw_counts'[n + 1][i][1]]
              /\ Len(scanned_count_rate'[m + 1]) = Len(scanned_raw_counts'[n + 1])
              /\ \A i \in 1..Len(scanned_raw_counts'[n + 1]) :
                     scanned_count_rate'[m + 1][i] =
                         rate_counter_sample_count_rate(scanned_raw_counts'[n + 1][i])
              /\ current_t' = current_t + 1]_vars

\* C9 witness: a second sweep of two different samples after a different
\* first sweep
C9_Witness ==
    /\ call.name = "scan_v"
    /\ raised = "none"
    /\ Len(scanned_raw_counts) = 2
    /\ Len(scanned_raw_counts[2]) = 2
    /\ scanned_raw_counts[2][1] # scanned_raw_counts[2][2]
    /\ scanned_raw_counts[1] # scanned_raw_counts[2]
    /\ current_t = 2

\* C10: go_to_v commands the actuator to the target exactly when
\* vmin <= target <= vmax; otherwise it issues no command, raises nothing
\* and changes no attribute.
C10_GoToOnlyWithinRange ==
    [][call'.name = "go_to_v"
       => /\ raised' = "none"
          /\ IF vmin <= call'.a /\ call'.a <= vmax
             THEN io' = <<Event("go_to_voltage", call'.a)>>
             ELSE io' = <<>> /\ UNCHANGED <<ctl, rc_state>>]_vars

\* C10 witness: a target the actuator would accept, below vmin, was not
\* commanded
C10_Witness ==
    /\ call.name = "go_to_v"
    /\ allowed_position(call.a)
    /\ call.a < vmin
    /\ call.a <= vmax
    /\ io = <<>>
    /\ raised = "none"

\* C11: start sets running and starts the rate counter, from the idle and
\* from the stopped state, and leaves the sweep index, the position, the
\* range and both result lists as they were.
C11_StartKeepsProgress ==
    [][call'.name = "start"
       => /\ running' = TRUE
          /\ rc_state' = "started"
          /\ io' = <<Event("rate_counter.start", 0)>>
          /\ UNCHANGED <<current_t, has_current_v, current_v, vmin, vmax,
                         scanned_raw_counts, scanned_count_rate>>]_vars

\* C11 witness: a restart of a stopped controller that holds a sweep
C11_Witness ==
    /\ call.name = "start"
    /\ before.rc_state = "stopped"
    /\ ~before.running
    /\ running
    /\ rc_state = "started"
    /\ current_t > 0
    /\ Len(scanned_raw_counts) > 0
    /\ has_current_v

\* C12: get_completed_scan_range returns (vmin, vmax, current_v) in every
\* state, without failing, without a collaborator call.
C12_CompletedRangeIsPureRead ==
    call.name = "get_completed_scan_range"
    => /\ raised = "none"
       /\ ret = <<vmin, vmax, current_v>>
       /\ io = <<>>

C14_SweepIndexNeverDecreases ==
    [][/\ current_t' >= current_t
       /\ (current_t > 0 /\ current_t' = 0) => call'.name = "reset"]_vars

\* C14 witness: a running controller made its second sweep after a reset
\* in between; the index went on from 1 to 2
C14_Witness ==
    /\ call.name = "scan_v"
    /\ raised = "none"
    /\ running
    /\ current_t = 2
    /\ Len(scanned_raw_counts) = 1

\* C15: move_v commands the actuator to the advanced position exactly when
\* that position lies within [vmin, vmax].
C15_MoveOnlyWithinRange ==
    (call.name = "move_v" /\ raised = "none")
    => IF vmin <= current_v /\ current_v <= vmax
       THEN io = <<Event("go_to_position", current_v)>>
       ELSE io = <<>>

\* C16: a sweep in progress goes on whatever the running flag is; a sweep
\* that has returned has moved to and sampled every position of its line,
\* appended its entries to both lists and added 1 to current_t, also when
\* running was cleared while it ran; and a still_scanning called next, with
\* running cleared, returns False.
C16_CancelOnlyBetweenSweeps ==
    /\ [](raised = "pending" => ENABLED (scan_v_step \/ scan_v_end))
    /\ []((call.name = "scan_v" /\ raised = "none")
          => LET n == Len(scanned_raw_counts)
                 P == Progression(vmin, vmax, step_size)
             IN  /\ n = before.sweeps + 1
                 /\ Len(scanned_count_rate) = n
                 /\ Len(scanned_raw_counts[n]) = Len(P)
                 /\ Len(scanned_count_rate[n]) = Len(P)
                 /\ io = <<Event("go_to_voltage", vmin)>> \o
                         [j \in 1..(2 * Len(P)) |->
                             IF j % 2 = 1
                             THEN Event("go_to_voltage", P[(j + 1) \div 2])
                             ELSE Event("sample_counts",
                                        scanned_raw_counts[n][j \div 2][1])])
    /\ [][/\ (raised = "pending" /\ raised' # "pending")
             => (raised' = "none" /\ current_t' = current_t + 1)
          /\ (call.name = "scan_v" /\ raised = "none" /\ ~running
              /\ call'.name = "still_scanning")
             => (ret' = FALSE /\ ~running')]_vars

\* C16 witness: a sweep that started with running set has returned with
\* running cleared and a full line of two samples
C16_Witness ==
    /\ call.name = "scan_v"
    /\ raised = "none"
    /\ before.running
    /\ ~running
    /\ step_size = 1
    /\ current_t = 1
    /\ Len(scanned_raw_counts) = 1
    /\ Len(scanned_raw_counts[1]) = maximum_allowed_position
    /\ Len(scanned_count_rate[1]) = maximum_allowed_position

\* C17: a scan_axis in which the actuator rejects a move does not raise; it
\* still moves to and samples every position of its line and returns one
\* sample for each.
C17_ScanSurvivesRejectedMove ==
    (call.name = "scan_axis" /\ call.c > 0)
    => LET P == Progression(call.a, call.b, call.c)
       IN  /\ raised = "none"
           /\ Len(ret) = Len(P)
           /\ LinePositions(call.a, call.b, call.c) \subseteq MovedTo(io)
           /\ Len(Sampled(io)) = Len(P)

\* C18: scanned_raw_counts and scanned_count_rate always have the same
\* number of entries, entry by entry of the same length, and no call but
\* reset makes either list shorter.
C18_ResultListsAligned ==
    /\ [](/\ Len(scanned_count_rate) = Len(scanned_raw_counts)
          /\ \A i \in 1..Len(scanned_raw_counts) :
                 Len(scanned_count_rate[i]) = Len(scanned_raw_counts[i]))
    /\ [][call'.name # "reset"
          => /\ Len(scanned_raw_counts') >= Len(scanned_raw_counts)
             /\ Len(scanned_count_rate') >= Len(scanned_count_rate)]_vars

\* C18 witness: two sweeps of different lengths recorded, the second right
\* after a reset emptied the lists
C18_Witness ==
    /\ call.name = "scan_v"
    /\ raised = "none"
    /\ current_t = 2
    /\ Len(scanned_raw_counts) = 1
    /\ Len(scanned_count_rate) = 1
    /\ Len(scanned_raw_counts[1]) = 1
    /\ step_size = 2

\* C19: while tmax is not changed, current_t > tmax stays true after every
\* call; every still_scanning called with current_t > tmax returns False
\* and leaves running False, also after a start, which sets running, and
\* after a reset.
C19_ExhaustionIsPermanent ==
    /\ []((call.name = "still_scanning" /\ current_t > tmax)
          => (ret = FALSE /\ ~running))
    /\ [][/\ (current_t > tmax /\ tmax' = tmax) => current_t' > tmax'
          /\ call'.name = "start" => running']_vars

\* C19 witness: with the sweeps used up, the results reset and running set
\* again by start, still_scanning returned False and cleared running
C19_Witness ==
    /\ call.name = "still_scanning"
    /\ before.running
    /\ ~running
    /\ ret = FALSE
    /\ tmax = 0
    /\ current_t = 1
    /\ scanned_raw_counts = <<>>

\* C20: only start and stop change the state of the rate counter;
\* still_scanning makes no call to it, so when it clears running because
\* the sweeps are used up the rate counter stays started, until stop.
C20_OnlyStartAndStopTouchRateCounter ==
    /\ [](running => rc_state = "started")
    /\ []((call.name = "still_scanning" /\ before.running /\ ~running)
          => (rc_state = "started" /\ io = <<>>))
    /\ [][/\ rc_state' # rc_state => call'.name \in {"start", "stop"}
          /\ call'.name = "stop" => rc_state' = "stopped"]_vars

\* C20 witness: still_scanning ended a run of one sweep without a call to
\* the rate counter, which is still started
C20_Witness ==
    /\ call.name = "still_scanning"
    /\ before.running
    /\ before.rc_state = "started"
    /\ ~running
    /\ rc_state = "started"
    /\ io = <<>>
    /\ tmax = 0
    /\ current_t = 1
    /\ Len(scanned_raw_counts) = 1

====
